---- MODULE Spec2Model ----
(***************************************************************************)
(* CGCache (src/app.py): an in-memory key/value cache behind four Flask    *)
(* routes (/save, /get, /clear, /keys) and a background cleanup thread.    *)
(*                                                                         *)
(* Request threads (Flask runs threaded=True) and cleanup threads are      *)
(* interleaved at the granularity of the shared-state accesses: every      *)
(* "with cache_lock:" block is entered by one step and left by a later     *)
(* one, so the lock is visibly held in between.  Purely thread-local work  *)
(* (validation, response formatting) is folded into the neighbouring       *)
(* step.  Time is a discrete clock; the 15 minute TTL and the 900 second   *)
(* sleep of the cleanup loop are both TTL ticks long.                      *)
(*                                                                         *)
(* The before_request hook does not look at the request, so a request's    *)
(* contents are chosen where the view function first reads them.  resp is  *)
(* an output: it holds what the step just taken returned to the client (or *)
(* what a cleanup pass logged), paired with the request it answers, and is *)
(* NoResp after every other step.                                          *)
(***************************************************************************)
EXTENDS Integers, FiniteSets, Sequences, TLC

VARIABLES
    cache_store,          \* dict cache_key -> request body (str)
    cache_expiration,     \* dict cache_key -> expiration time
    cache_lock,           \* holder of cache_lock, or NoThread
    cleanup_job_started,  \* _cleanup_job_started
    cleanup_job_lock,     \* holder of _cleanup_job_lock, or NoThread
    main_pc,              \* how far the process start-up has got
    now,                  \* datetime.now()
    pc,                   \* per request thread: position in its handler
    req,                  \* per request thread: the request being served
    loc,                  \* per request thread: locals of the handler
    resp,                 \* what the last step returned or logged, if anything
    sw_pc,                \* per cleanup thread: position in cleanup_expired_cache
    sw_wake,              \* per cleanup thread: when its time.sleep(900) ends
    sw_time,              \* per cleanup thread: its local current_time
    nreq                  \* number of requests received so far

vars == <<cache_store, cache_expiration, cache_lock, cleanup_job_started,
          cleanup_job_lock, main_pc, now, pc, req, loc, resp,
          sw_pc, sw_wake, sw_time, nreq>>

----------------------------------------------------------------------------
(* Bounds of the model *)

\* the clock stops at MaxTime
MaxTime == 2

\* number of requests the server receives
MaxReq == 3

(* Program constants, in clock ticks *)

\* timedelta(minutes=15), one TTL
TTL == 2

\* time.sleep(900), the same 15 minutes
SweepInterval == 2

----------------------------------------------------------------------------
(* Threads, keys and request bodies *)

Workers == {"w1", "w2"}

\* the cleanup thread started by __main__ and the one started by the
\* before_request hook
MainSweeper == "sweep_main"
HookSweeper == "sweep_hook"
Sweepers == {MainSweeper, HookSweeper}

NoThread == "nobody"

Keys == {"a", "b"}

\* request.args.get('cacheKey') / data.get('cacheKey') when the key is missing
NoKey == ""

\* request bodies of /save: raw bytes.  BadBytes stands for a body that is
\* not valid UTF-8; the other tokens stand for the UTF-8 encoding of the
\* string of the same name.
EmptyBody == ""
TextBody == "hello"
JsonLooseBody == "{ }"
JsonTightBody == "{}\n"
BadBytes == "<ff>"
Bodies == {EmptyBody, TextBody, JsonLooseBody, BadBytes}

DecodeError == "<UnicodeDecodeError>"
JsonError == "<JSONDecodeError>"
EmptyObject == "<dict {}>"

\* request.data.decode('utf-8')
Utf8Decode(b) == IF b = BadBytes THEN DecodeError ELSE b

\* json.loads(s)
JsonLoads(s) ==
    IF s \in {JsonLooseBody, JsonTightBody} THEN EmptyObject ELSE JsonError

\* the body flask.jsonify(v) produces
Jsonify(v) == IF v = EmptyObject THEN JsonTightBody ELSE JsonError


\* faulty variant of GetResponseBody: the text/plain fallback of lines 204-206
\* is missing
GetResponseBody_NoFallback(s) == Jsonify(JsonLoads(s))

\* lines 200-206 of get_cache: the body of the 200 response for a cached
\* string: jsonify(json.loads(s)) when s parses as JSON, else s as text/plain
GetResponseBody(s) ==
    IF JsonLoads(s) # JsonError THEN Jsonify(JsonLoads(s)) ELSE s

----------------------------------------------------------------------------
(* Dictionaries *)

EmptyDict == [k \in {} |-> 0]

\* faulty variant of DictSet: the dictionary is replaced by the one entry
DictSet_Replace(d, k, v) == [x \in {k} |-> v]

\* d[k] = v
DictSet(d, k, v) == [x \in DOMAIN d \cup {k} |-> IF x = k THEN v ELSE d[x]]

\* faulty variant of DictDel: the whole dictionary is emptied
DictDel_Clear(d, k) == EmptyDict

\* faulty variant of DictDel: nothing is deleted
DictDel_Keep(d, k) == d

\* del d[k]
DictDel(d, k) == [x \in DOMAIN d \ {k} |-> d[x]]

\* for key in ks: if key in d: del d[key]
DictDelAll(d, ks) == [x \in DOMAIN d \ ks |-> d[x]]

\* datetime.now() + timedelta(minutes=15)
ExpirationTime(t) == t + TTL

\* faulty variant of ExpiredKeys: > for >=
ExpiredKeys_Strict(expiration, current_time) ==
    {k \in DOMAIN expiration : current_time > expiration[k]}

\* [key for key, expiration_time in cache_expiration.items()
\*      if current_time >= expiration_time]
ExpiredKeys(expiration, current_time) ==
    {k \in DOMAIN expiration : current_time >= expiration[k]}

\* faulty variant of TotalKeys: len(cache_store) taken after cache_store.clear()
TotalKeys_AfterClear(store) == Cardinality(DOMAIN EmptyDict)

\* len(cache_store)
TotalKeys(store) == Cardinality(DOMAIN store)

\* list(cache_store.keys()), as a set: the order of the list is not modelled
AllKeys(store) == DOMAIN store

----------------------------------------------------------------------------
(* Requests, locals and responses *)

NoReq == [op |-> "none", key |-> NoKey, body |-> EmptyBody]
NoLoc == [is_update |-> FALSE, total_keys |-> 0]
\* resp.req is the request a response answers; cached is the local
\* cached_response_string of get_cache, body the response body of /get,
\* keys and count the fields of the /keys response, count also keysCleared
\* of /clear, is_update the "Updated"/"Saved" of the log line of /save
NoResp == [req |-> NoReq, status |-> 0, cached |-> "", body |-> "",
           keys |-> {}, count |-> 0, is_update |-> FALSE]

\* the summary a cleanup pass logs (lines 56-62): the keys it deleted
CleanupLog(expired_keys) ==
    [NoResp EXCEPT !.req = [NoReq EXCEPT !.op = "cleanup"],
                   !.keys = expired_keys,
                   !.count = Cardinality(expired_keys)]

\* what the cleanup thread logs at line 65 when a pass raises
CleanupErrorLog == [NoResp EXCEPT !.req = [NoReq EXCEPT !.op = "cleanup_error"]]

\* the requests a client can send: /save?cacheKey=k with a body, /get and
\* /clear with an optional cacheKey field, /keys
Requests ==
    [op : {"save"}, key : Keys, body : Bodies]
    \cup [op : {"save"}, key : {NoKey}, body : {TextBody}]
    \cup [op : {"get", "clear"}, key : Keys \cup {NoKey}, body : {EmptyBody}]
    \cup [op : {"keys"}, key : {NoKey}, body : {EmptyBody}]

\* the response to request r with HTTP status code
Reply(r, code) == [NoResp EXCEPT !.req = r, !.status = code]

\* faulty variant of LockFree: the with block is entered without the lock
LockFree_Always == TRUE

\* with cache_lock: can be entered
LockFree == cache_lock = NoThread

\* faulty variant of SaveAccepted: the empty-body check of lines 136-138 is missing
SaveAccepted_NoBodyCheck(r) ==
    /\ r.key # NoKey
    /\ Utf8Decode(r.body) # DecodeError

\* /save reaches its "with cache_lock:" (lines 127-138 reject nothing)
SaveAccepted(r) ==
    /\ r.key # NoKey
    /\ Utf8Decode(r.body) # DecodeError
    /\ Utf8Decode(r.body) # EmptyBody

\* the status /save returns without touching the cache (lines 129-138, 158-160)
SaveRejectStatus(r) ==
    IF r.key = NoKey THEN 400
    ELSE IF Utf8Decode(r.body) = DecodeError THEN 500
    ELSE 400

\* whether the handler of request r reaches a "with cache_lock:" block
NeedsLock(r) ==
    \/ r.op = "save" /\ SaveAccepted(r)
    \/ r.op = "get" /\ r.key # NoKey
    \/ r.op = "clear"
    \/ r.op = "keys"

----------------------------------------------------------------------------
Init ==
    /\ cache_store = EmptyDict
    /\ cache_expiration = EmptyDict
    /\ cache_lock = NoThread
    /\ cleanup_job_started = FALSE
    /\ cleanup_job_lock = NoThread
    /\ main_pc = "boot"
    /\ now = 0
    /\ pc = [w \in Workers |-> "idle"]
    /\ req = [w \in Workers |-> NoReq]
    /\ loc = [w \in Workers |-> NoLoc]
    /\ resp = NoResp
    /\ sw_pc = [s \in Sweepers |-> "unstarted"]
    /\ sw_wake = [s \in Sweepers |-> 0]
    /\ sw_time = [s \in Sweepers |-> 0]
    /\ nreq = 0

\* start_cleanup_job(): a new daemon thread enters cleanup_expired_cache and
\* its first time.sleep(900)
StartCleanupJob(s) ==
    /\ sw_pc' = [sw_pc EXCEPT ![s] = "sleep"]
    /\ sw_wake' = [sw_wake EXCEPT ![s] = now + SweepInterval]

\* python app.py: the __main__ block starts the cleanup job, then app.run()
MainEntry ==
    /\ main_pc = "boot"
    /\ StartCleanupJob(MainSweeper)
    /\ main_pc' = "serving"
    /\ resp' = NoResp
    /\ UNCHANGED <<cache_store, cache_expiration, cache_lock, cleanup_job_started,
                   cleanup_job_lock, now, pc, req, loc, sw_time, nreq>>

\* the module is imported by a WSGI server: the __main__ block does not run
WsgiImport ==
    /\ main_pc = "boot"
    /\ main_pc' = "serving"
    /\ resp' = NoResp
    /\ UNCHANGED <<cache_store, cache_expiration, cache_lock, cleanup_job_started,
                   cleanup_job_lock, now, pc, req, loc, sw_pc, sw_wake,
                   sw_time, nreq>>

\* the clock advances
Tick ==
    /\ now < MaxTime
    /\ now' = now + 1
    /\ resp' = NoResp
    /\ UNCHANGED <<cache_store, cache_expiration, cache_lock, cleanup_job_started,
                   cleanup_job_lock, main_pc, pc, req, loc, sw_pc, sw_wake,
                   sw_time, nreq>>

----------------------------------------------------------------------------
(* before_request hook *)

\* a request arrives at thread w; initialize() calls
\* ensure_cleanup_job_started(), which enters "with _cleanup_job_lock:"
Request(w) ==
    /\ main_pc = "serving"
    /\ pc[w] = "idle"
    /\ nreq < MaxReq
    /\ cleanup_job_lock = NoThread
    /\ cleanup_job_lock' = w
    /\ pc' = [pc EXCEPT ![w] = "hook"]
    /\ nreq' = nreq + 1
    /\ resp' = NoResp
    /\ UNCHANGED <<cache_store, cache_expiration, cache_lock, cleanup_job_started,
                   main_pc, now, req, loc, sw_pc, sw_wake, sw_time>>

\* the body of ensure_cleanup_job_started() and the release of its lock
EnsureCleanupJobStarted(w) ==
    /\ pc[w] = "hook"
    /\ cleanup_job_lock = w
    /\ IF ~cleanup_job_started
         THEN /\ StartCleanupJob(HookSweeper)
              /\ cleanup_job_started' = TRUE
         ELSE UNCHANGED <<sw_pc, sw_wake, cleanup_job_started>>
    /\ cleanup_job_lock' = NoThread
    /\ pc' = [pc EXCEPT ![w] = "handler"]
    /\ resp' = NoResp
    /\ UNCHANGED <<cache_store, cache_expiration, cache_lock, main_pc, now, req,
                   loc, sw_time, nreq>>

----------------------------------------------------------------------------
(* Route handlers *)

\* the handler returns w's response
Return(w, r) ==
    /\ resp' = r
    /\ req' = [req EXCEPT ![w] = NoReq]
    /\ pc' = [pc EXCEPT ![w] = "idle"]
    /\ loc' = [loc EXCEPT ![w] = NoLoc]

\* the view function reads its request r; /save and /get return an error
\* before any "with cache_lock:" (lines 129-138, 173-181)
Reject(w, r) ==
    /\ pc[w] = "handler"
    /\ ~NeedsLock(r)
    /\ resp' = Reply(r, IF r.op = "save" THEN SaveRejectStatus(r) ELSE 400)
    /\ pc' = [pc EXCEPT ![w] = "idle"]
    /\ UNCHANGED <<cache_store, cache_expiration, cache_lock, cleanup_job_started,
                   cleanup_job_lock, main_pc, now, req, loc, sw_pc, sw_wake,
                   sw_time, nreq>>

\* the view function reads its request r and enters "with cache_lock:"
Acquire(w, r) ==
    /\ pc[w] = "handler"
    /\ NeedsLock(r)
    /\ LockFree
    /\ cache_lock' = w
    /\ req' = [req EXCEPT ![w] = r]
    /\ pc' = [pc EXCEPT ![w] = "locked"]
    /\ resp' = NoResp
    /\ UNCHANGED <<cache_store, cache_expiration, cleanup_job_started,
                   cleanup_job_lock, main_pc, now, loc, sw_pc, sw_wake,
                   sw_time, nreq>>

\* save_cache, lines 142-143
SaveStore(w) ==
    /\ pc[w] = "locked"
    /\ cache_lock = w
    /\ req[w].op = "save"
    /\ loc' = [loc EXCEPT ![w].is_update = req[w].key \in DOMAIN cache_store]
    /\ cache_store' = DictSet(cache_store, req[w].key, Utf8Decode(req[w].body))
    /\ pc' = [pc EXCEPT ![w] = "save_stored"]
    /\ resp' = NoResp
    /\ UNCHANGED <<cache_expiration, cache_lock, cleanup_job_started,
                   cleanup_job_lock, main_pc, now, req, sw_pc, sw_wake,
                   sw_time, nreq>>

\* faulty variant of SaveExpire: the expiration time of a key that has one
\* is kept (cache_expiration.setdefault)
SaveExpire_KeepFirst(w) ==
    /\ pc[w] = "save_stored"
    /\ cache_lock = w
    /\ cache_expiration' =
           IF req[w].key \in DOMAIN cache_expiration
             THEN cache_expiration
             ELSE DictSet(cache_expiration, req[w].key, ExpirationTime(now))
    /\ cache_lock' = NoThread
    /\ Return(w, [Reply(req[w], 200) EXCEPT !.is_update = loc[w].is_update])
    /\ UNCHANGED <<cache_store, cleanup_job_started, cleanup_job_lock, main_pc,
                   now, sw_pc, sw_wake, sw_time, nreq>>

\* save_cache, lines 145-146, the end of the with block and the response
SaveExpire(w) ==
    /\ pc[w] = "save_stored"
    /\ cache_lock = w
    /\ cache_expiration' = DictSet(cache_expiration, req[w].key, ExpirationTime(now))
    /\ cache_lock' = NoThread
    /\ Return(w, [Reply(req[w], 200) EXCEPT !.is_update = loc[w].is_update])
    /\ UNCHANGED <<cache_store, cleanup_job_started, cleanup_job_lock, main_pc,
                   now, sw_pc, sw_wake, sw_time, nreq>>

\* the response of get_cache for the key of request r (lines 185-206); the
\* expiration_time read at line 191 only feeds the log line of line 198
GetResult(store, r) ==
    IF r.key \notin DOMAIN store
      THEN Reply(r, 404)
      ELSE [Reply(r, 200) EXCEPT !.cached = store[r.key],
                                 !.body = GetResponseBody(store[r.key])]

\* faulty variant of GetBody: a /get that finds its key renews the expiration time
GetBody_Touch(w) ==
    /\ pc[w] = "locked"
    /\ cache_lock = w
    /\ req[w].op = "get"
    /\ cache_lock' = NoThread
    /\ Return(w, GetResult(cache_store, req[w]))
    /\ cache_expiration' =
          IF req[w].key \in DOMAIN cache_store
            THEN DictSet(cache_expiration, req[w].key, ExpirationTime(now))
            ELSE cache_expiration
    /\ UNCHANGED <<cache_store, cleanup_job_started,
                   cleanup_job_lock, main_pc, now, sw_pc, sw_wake, sw_time,
                   nreq>>

\* get_cache, lines 185-206
GetBody(w) ==
    /\ pc[w] = "locked"
    /\ cache_lock = w
    /\ req[w].op = "get"
    /\ cache_lock' = NoThread
    /\ Return(w, GetResult(cache_store, req[w]))
    /\ UNCHANGED <<cache_store, cache_expiration, cleanup_job_started,
                   cleanup_job_lock, main_pc, now, sw_pc, sw_wake, sw_time,
                   nreq>>

\* clear_cache without a cacheKey, lines 226-227
ClearAllStore(w) ==
    /\ pc[w] = "locked"
    /\ cache_lock = w
    /\ req[w].op = "clear"
    /\ req[w].key = NoKey
    /\ loc' = [loc EXCEPT ![w].total_keys = TotalKeys(cache_store)]
    /\ cache_store' = EmptyDict
    /\ pc' = [pc EXCEPT ![w] = "clear_stored"]
    /\ resp' = NoResp
    /\ UNCHANGED <<cache_expiration, cache_lock, cleanup_job_started,
                   cleanup_job_lock, main_pc, now, req, sw_pc, sw_wake,
                   sw_time, nreq>>

\* faulty variant of ClearAllExpire: cache_expiration.clear() is missing
ClearAllExpire_Skip(w) ==
    /\ pc[w] = "clear_stored"
    /\ cache_lock = w
    /\ cache_lock' = NoThread
    /\ Return(w, [Reply(req[w], 200) EXCEPT !.count = loc[w].total_keys])
    /\ UNCHANGED <<cache_store, cache_expiration, cleanup_job_started,
                   cleanup_job_lock, main_pc, now, sw_pc, sw_wake, sw_time, nreq>>

\* clear_cache without a cacheKey, line 228, the end of the with block and
\* the response
ClearAllExpire(w) ==
    /\ pc[w] = "clear_stored"
    /\ cache_lock = w
    /\ cache_expiration' = EmptyDict
    /\ cache_lock' = NoThread
    /\ Return(w, [Reply(req[w], 200) EXCEPT !.count = loc[w].total_keys])
    /\ UNCHANGED <<cache_store, cleanup_job_started, cleanup_job_lock, main_pc,
                   now, sw_pc, sw_wake, sw_time, nreq>>

\* faulty variant of ClearKeyBody: the 404 return leaves the lock held
ClearKeyBody_Leak(w) ==
    /\ pc[w] = "locked"
    /\ cache_lock = w
    /\ req[w].op = "clear"
    /\ req[w].key # NoKey
    /\ IF req[w].key \notin DOMAIN cache_store
         THEN /\ Return(w, Reply(req[w], 404))
              /\ UNCHANGED <<cache_store, cache_expiration, cache_lock>>
         ELSE /\ cache_store' = DictDel(cache_store, req[w].key)
              /\ cache_expiration' = DictDel(cache_expiration, req[w].key)
              /\ Return(w, Reply(req[w], 200))
              /\ cache_lock' = NoThread
    /\ UNCHANGED <<cleanup_job_started, cleanup_job_lock, main_pc, now,
                   sw_pc, sw_wake, sw_time, nreq>>

\* clear_cache with a cacheKey, lines 241-255
ClearKeyBody(w) ==
    /\ pc[w] = "locked"
    /\ cache_lock = w
    /\ req[w].op = "clear"
    /\ req[w].key # NoKey
    /\ IF req[w].key \notin DOMAIN cache_store
         THEN /\ Return(w, Reply(req[w], 404))
              /\ UNCHANGED <<cache_store, cache_expiration>>
         ELSE /\ cache_store' = DictDel(cache_store, req[w].key)
              /\ cache_expiration' = DictDel(cache_expiration, req[w].key)
              /\ Return(w, Reply(req[w], 200))
    /\ cache_lock' = NoThread
    /\ UNCHANGED <<cleanup_job_started, cleanup_job_lock, main_pc, now,
                   sw_pc, sw_wake, sw_time, nreq>>

\* get_all_keys, lines 269-277
KeysBody(w) ==
    /\ pc[w] = "locked"
    /\ cache_lock = w
    /\ req[w].op = "keys"
    /\ cache_lock' = NoThread
    /\ Return(w, [Reply(req[w], 200) EXCEPT
                     !.keys = AllKeys(cache_store),
                     !.count = Cardinality(AllKeys(cache_store))])
    /\ UNCHANGED <<cache_store, cache_expiration, cleanup_job_started,
                   cleanup_job_lock, main_pc, now, sw_pc, sw_wake, sw_time,
                   nreq>>

----------------------------------------------------------------------------
(* cleanup_expired_cache *)

\* time.sleep(900) returns and current_time = datetime.now() is taken
SweepWake(s) ==
    /\ sw_pc[s] = "sleep"
    /\ now >= sw_wake[s]
    /\ sw_time' = [sw_time EXCEPT ![s] = now]
    /\ sw_pc' = [sw_pc EXCEPT ![s] = "sampled"]
    /\ resp' = NoResp
    /\ UNCHANGED <<cache_store, cache_expiration, cache_lock, cleanup_job_started,
                   cleanup_job_lock, main_pc, now, pc, req, loc, sw_wake, nreq>>

\* the cleanup thread enters "with cache_lock:"
SweepAcquire(s) ==
    /\ sw_pc[s] = "sampled"
    /\ LockFree
    /\ cache_lock' = s
    /\ sw_pc' = [sw_pc EXCEPT ![s] = "locked"]
    /\ resp' = NoResp
    /\ UNCHANGED <<cache_store, cache_expiration, cleanup_job_started,
                   cleanup_job_lock, main_pc, now, pc, req, loc, sw_wake,
                   sw_time, nreq>>

\* faulty variant of SweepPass: the pass compares the expiration times with
\* a time one TTL after the sampled current_time
SweepPass_Ahead(s) ==
    /\ sw_pc[s] = "locked"
    /\ cache_lock = s
    /\ LET expired_keys == ExpiredKeys(cache_expiration, sw_time[s] + TTL)
       IN /\ cache_store' = DictDelAll(cache_store, expired_keys)
          /\ cache_expiration' = DictDelAll(cache_expiration, expired_keys)
          /\ resp' = CleanupLog(expired_keys)
    /\ cache_lock' = NoThread
    /\ sw_pc' = [sw_pc EXCEPT ![s] = "sleep"]
    /\ sw_wake' = [sw_wake EXCEPT ![s] = now + SweepInterval]
    /\ sw_time' = [sw_time EXCEPT ![s] = 0]
    /\ UNCHANGED <<cleanup_job_started, cleanup_job_lock, main_pc, now, pc, req,
                   loc, nreq>>

\* lines 46-62, the end of the with block, and the next time.sleep(900)
SweepPass(s) ==
    /\ sw_pc[s] = "locked"
    /\ cache_lock = s
    /\ LET expired_keys == ExpiredKeys(cache_expiration, sw_time[s])
       IN /\ cache_store' = DictDelAll(cache_store, expired_keys)
          /\ cache_expiration' = DictDelAll(cache_expiration, expired_keys)
          /\ resp' = CleanupLog(expired_keys)
    /\ cache_lock' = NoThread
    /\ sw_pc' = [sw_pc EXCEPT ![s] = "sleep"]
    /\ sw_wake' = [sw_wake EXCEPT ![s] = now + SweepInterval]
    /\ sw_time' = [sw_time EXCEPT ![s] = 0]
    /\ UNCHANGED <<cleanup_job_started, cleanup_job_lock, main_pc, now, pc, req,
                   loc, nreq>>

----------------------------------------------------------------------------
Next ==
    \/ MainEntry
    \/ WsgiImport
    \/ Tick
    \/ \E w \in Workers : Request(w)
    \/ \E w \in Workers : EnsureCleanupJobStarted(w)
    \/ \E w \in Workers : \E r \in Requests : Reject(w, r)
    \/ \E w \in Workers : \E r \in Requests : Acquire(w, r)
    \/ \E w \in Workers : SaveStore(w)
    \/ \E w \in Workers : SaveExpire(w)
    \/ \E w \in Workers : GetBody(w)
    \/ \E w \in Workers : ClearAllStore(w)
    \/ \E w \in Workers : ClearAllExpire(w)
    \/ \E w \in Workers : ClearKeyBody(w)
    \/ \E w \in Workers : KeysBody(w)
    \/ \E s \in Sweepers : SweepWake(s)
    \/ \E s \in Sweepers : SweepAcquire(s)
    \/ \E s \in Sweepers : SweepPass(s)

Spec == Init /\ [][Next]_vars

----------------------------------------------------------------------------
(* The cleanup pass with an exception raised inside its try block, and the *)
(* threads under a fair scheduler.                                         *)

\* faulty variant of SweepFault: the exception ends the cleanup thread
SweepFault_Dies(s) ==
    /\ sw_pc[s] \in {"sampled", "locked"}
    /\ sw_pc[s] = "locked" => cache_lock = s
    /\ cache_lock' = IF sw_pc[s] = "locked" THEN NoThread ELSE cache_lock
    /\ sw_pc' = [sw_pc EXCEPT ![s] = "unstarted"]
    /\ sw_time' = [sw_time EXCEPT ![s] = 0]
    /\ resp' = CleanupErrorLog
    /\ UNCHANGED <<cache_store, cache_expiration, cleanup_job_started,
                   cleanup_job_lock, main_pc, now, pc, req, loc, sw_wake, nreq>>

\* a statement of the try block raises: at line 42, before the lock, or
\* inside the with block after some keys are deleted (and possibly between
\* the two del statements of one key, line 56); the with block releases the
\* lock, line 64 catches, line 65 logs, and the loop sleeps again
SweepFault(s) ==
    /\ sw_pc[s] \in {"sampled", "locked"}
    /\ sw_pc[s] = "locked" => cache_lock = s
    /\ IF sw_pc[s] = "locked"
       THEN LET expired_keys == ExpiredKeys(cache_expiration, sw_time[s])
            IN \E done \in SUBSET expired_keys :
                 \E half \in SUBSET (expired_keys \ done) :
                    /\ Cardinality(half) <= 1
                    /\ cache_store' = DictDelAll(cache_store, done \cup half)
                    /\ cache_expiration' = DictDelAll(cache_expiration, done)
                    /\ cache_lock' = NoThread
       ELSE UNCHANGED <<cache_store, cache_expiration, cache_lock>>
    /\ sw_pc' = [sw_pc EXCEPT ![s] = "sleep"]
    /\ sw_wake' = [sw_wake EXCEPT ![s] = now + SweepInterval]
    /\ sw_time' = [sw_time EXCEPT ![s] = 0]
    /\ resp' = CleanupErrorLog
    /\ UNCHANGED <<cleanup_job_started, cleanup_job_lock, main_pc, now, pc, req,
                   loc, nreq>>

FaultNext ==
    \/ Next
    \/ \E s \in Sweepers : SweepFault(s)

\* the steps the cleanup thread s takes when nothing raises
SweeperStep(s) == SweepWake(s) \/ SweepAcquire(s) \/ SweepPass(s)

\* the steps request thread w takes once a request has arrived
WorkerStep(w) ==
    \/ EnsureCleanupJobStarted(w)
    \/ \E r \in Requests : Reject(w, r)
    \/ \E r \in Requests : Acquire(w, r)
    \/ SaveStore(w)
    \/ SaveExpire(w)
    \/ GetBody(w)
    \/ ClearAllStore(w)
    \/ ClearAllExpire(w)
    \/ ClearKeyBody(w)
    \/ KeysBody(w)

\* every thread that can run is eventually run, and the clock advances
FaultSpec ==
    /\ Init
    /\ [][FaultNext]_vars
    /\ WF_vars(Tick)
    /\ \A s \in Sweepers : WF_vars(SweeperStep(s))
    /\ \A w \in Workers : WF_vars(WorkerStep(w))

----------------------------------------------------------------------------
(* A client scenario: one Put per key, sent concurrently after the start   *)
(* of the clock, then reads sent once every Put has been answered.  Here a *)
(* request's contents are fixed when it arrives.                           *)

\* the keys in the order in which their Puts arrive
KeyOrder == <<"a", "b">>

\* M, the number of Puts
PutCount == Len(KeyOrder)

\* the payload the scenario writes to key k
ScenarioBody(k) == IF k = KeyOrder[1] THEN TextBody ELSE JsonLooseBody

\* every Put of the scenario has been sent and answered
PutsDone ==
    /\ nreq >= PutCount
    /\ \A w \in Workers : req[w].op # "save"

\* the next Put arrives at thread w (and enters the before_request hook)
PutRequest(w) ==
    /\ main_pc = "serving"
    /\ pc[w] = "idle"
    /\ nreq < PutCount
    /\ now > 0
    /\ cleanup_job_lock = NoThread
    /\ cleanup_job_lock' = w
    /\ pc' = [pc EXCEPT ![w] = "hook"]
    /\ req' = [req EXCEPT ![w] = [op |-> "save", key |-> KeyOrder[nreq + 1],
                                  body |-> ScenarioBody(KeyOrder[nreq + 1])]]
    /\ nreq' = nreq + 1
    /\ resp' = NoResp
    /\ UNCHANGED <<cache_store, cache_expiration, cache_lock, cleanup_job_started,
                   main_pc, now, loc, sw_pc, sw_wake, sw_time>>

\* a Get or a ListKeys arrives at thread w after the Puts
ReadRequest(w, r) ==
    /\ main_pc = "serving"
    /\ pc[w] = "idle"
    /\ PutsDone
    /\ nreq < MaxReq + 1
    /\ r.op \in {"get", "keys"}
    /\ r.op = "get" => r.key # NoKey
    /\ cleanup_job_lock = NoThread
    /\ cleanup_job_lock' = w
    /\ pc' = [pc EXCEPT ![w] = "hook"]
    /\ req' = [req EXCEPT ![w] = r]
    /\ nreq' = nreq + 1
    /\ resp' = NoResp
    /\ UNCHANGED <<cache_store, cache_expiration, cache_lock, cleanup_job_started,
                   main_pc, now, loc, sw_pc, sw_wake, sw_time>>

\* the view function of thread w enters "with cache_lock:" for its request
AcquireOwn(w) == Acquire(w, req[w])

PutsNext ==
    \/ MainEntry
    \/ WsgiImport
    \/ Tick
    \/ \E w \in Workers : PutRequest(w)
    \/ \E w \in Workers : \E r \in Requests : ReadRequest(w, r)
    \/ \E w \in Workers : EnsureCleanupJobStarted(w)
    \/ \E w \in Workers : AcquireOwn(w)
    \/ \E w \in Workers : SaveStore(w)
    \/ \E w \in Workers : SaveExpire(w)
    \/ \E w \in Workers : GetBody(w)
    \/ \E w \in Workers : KeysBody(w)
    \/ \E s \in Sweepers : SweepWake(s)
    \/ \E s \in Sweepers : SweepAcquire(s)
    \/ \E s \in Sweepers : SweepPass(s)

PutsSpec == Init /\ [][PutsNext]_vars

----------------------------------------------------------------------------
(* Properties *)

\* the entry of key k is live: stored, and the clock is strictly before its
\* expiration time
LiveIn(store, expiration, t, k) ==
    /\ k \in DOMAIN store
    /\ k \in DOMAIN expiration
    /\ t < expiration[k]

Live(k) == LiveIn(cache_store, cache_expiration, now, k)

\* the cleanup threads that have been started
SweepTasks == {s \in Sweepers : sw_pc[s] # "unstarted"}

\* C1: a /get of a key whose expiration time (the time of its last Put plus
\* TTL) has been reached answers 404 Not Found, whether or not a cleanup pass
\* has run since.  (resp is the response of the step just taken, so the
\* store and the clock are those of the lookup.)
C1_LazyExpiryOnGet ==
    /\ resp.req.op = "get"
    /\ resp.req.key \in DOMAIN cache_expiration
    /\ now >= cache_expiration[resp.req.key]
    => resp.status = 404

\* C2: /keys lists exactly the keys whose entry is live at the instant of
\* the call, and count is the size of that set.
C2_ListKeysOnlyLive ==
    /\ resp.req.op = "keys"
    /\ resp.status = 200
    => /\ resp.keys = {k \in Keys : Live(k)}
       /\ resp.count = Cardinality({k \in Keys : Live(k)})

\* C3: once the cleanup job has been started, by __main__ or by the
\* before_request hook, exactly one cleanup thread exists.
C3_OneSweepTask ==
    (cleanup_job_started \/ SweepTasks # {}) => Cardinality(SweepTasks) = 1

StoredBodyChangedBy(k) ==
    \/ \E w \in Workers :
          /\ cache_lock = w
          /\ \/ req[w].op = "save" /\ req[w].key = k
             \/ req[w].op = "clear" /\ req[w].key \in {k, NoKey}
    \/ \E s \in Sweepers :
          /\ cache_lock = s
          /\ k \in DOMAIN cache_expiration
          /\ sw_time[s] >= cache_expiration[k]

C5_Overwrite ==
    /\ (resp.req.op = "save" /\ resp.status = 200)
       => /\ resp.req.key \in DOMAIN cache_store
          /\ cache_store[resp.req.key] = resp.req.body
          /\ resp.req.key \in DOMAIN cache_expiration
          /\ cache_expiration[resp.req.key] = now + TTL
    /\ (resp.req.op = "get" /\ resp.status = 200)
       => /\ resp.req.key \in DOMAIN cache_store
          /\ resp.cached = cache_store[resp.req.key]

\* a /save has just replaced the entry of a key that was stored, at a time
\* after the start
C5_Witness ==
    /\ resp.req.op = "save"
    /\ resp.status = 200
    /\ resp.is_update
    /\ now > 0
    /\ cache_expiration[resp.req.key] = now + TTL

\* C6: a cleanup pass that sampled current_time S removes, from the store
\* and from the expiration times, every key whose expiration time was <= S
\* when the pass ran, and leaves every other key with its body and its
\* expiration time.
C6_SweepCorrectness ==
    [][\A s \in Sweepers :
          (sw_pc[s] = "locked" /\ sw_pc'[s] = "sleep")
          => /\ \A k \in DOMAIN cache_expiration :
                   IF cache_expiration[k] <= sw_time[s]
                     THEN /\ k \notin DOMAIN cache_store'
                          /\ k \notin DOMAIN cache_expiration'
                     ELSE /\ k \in DOMAIN cache_store'
                          /\ k \in DOMAIN cache_expiration'
                          /\ cache_store'[k] = cache_store[k]
                          /\ cache_expiration'[k] = cache_expiration[k]
             /\ DOMAIN cache_store' \subseteq DOMAIN cache_store
             /\ DOMAIN cache_expiration' \subseteq DOMAIN cache_expiration
      ]_vars

\* a cleanup pass has just deleted an expired key and left another entry
C6_Witness ==
    /\ resp.req.op = "cleanup"
    /\ resp.count >= 1
    /\ cache_store # EmptyDict
    /\ DOMAIN cache_store = DOMAIN cache_expiration

\* thread w leaves the critical section of a request of kind op
Finishes(w, op) ==
    /\ pc[w] \in {"locked", "save_stored", "clear_stored"}
    /\ req[w].op = op
    /\ pc'[w] = "idle"

\* the step is the store write of a Put of key k
PutOf(k) ==
    \E w \in Workers :
       /\ pc[w] = "locked"
       /\ req[w].op = "save"
       /\ req[w].key = k
       /\ pc'[w] = "save_stored"

\* C7: a Delete of a stored key answers 200 and removes the key from the
\* store and from the expiration times; a Get or a Delete of a key that is
\* not stored answers 404 and changes nothing; and a key that is not stored
\* stays so until a Put of that key.
C7_Delete ==
    [][/\ \A w \in Workers :
             /\ (Finishes(w, "clear") /\ req[w].key # NoKey)
                => /\ resp'.req = req[w]
                   /\ IF req[w].key \in DOMAIN cache_store
                        THEN /\ resp'.status = 200
                             /\ req[w].key \notin DOMAIN cache_store'
                             /\ req[w].key \notin DOMAIN cache_expiration'
                        ELSE /\ resp'.status = 404
                             /\ UNCHANGED <<cache_store, cache_expiration>>
             /\ (Finishes(w, "get") /\ req[w].key \notin DOMAIN cache_store)
                => /\ resp'.req = req[w]
                   /\ resp'.status = 404
                   /\ UNCHANGED <<cache_store, cache_expiration>>
       /\ \A k \in Keys :
             (k \notin DOMAIN cache_store /\ k \in DOMAIN cache_store')
             => PutOf(k)
      ]_vars

\* a Delete of a stored key has just answered 200
C7_Witness ==
    /\ resp.req.op = "clear"
    /\ resp.req.key # NoKey
    /\ resp.status = 200
    /\ resp.req.key \notin DOMAIN cache_store
    /\ resp.req.key \notin DOMAIN cache_expiration

\* C8: a Delete of a key whose expiration time has been reached answers 404,
\* also when no cleanup pass has removed the entry.
C8_DeleteExpiredNotFound ==
    [][\A w \in Workers :
          (/\ Finishes(w, "clear")
           /\ req[w].key \in DOMAIN cache_expiration
           /\ now >= cache_expiration[req[w].key])
          => resp'.status = 404
      ]_vars

\* C9: a Put adds its key to the keys stored; ClearAll answers 200 with the
\* number of keys that were stored when it cleared the store, and leaves the
\* store and the expiration times empty; ListKeys answers with the keys
\* stored and their number, so with no key and 0 after a ClearAll.
C9_ClearAll ==
    [][\A w \in Workers :
          /\ (pc[w] = "locked" /\ req[w].op = "save" /\ pc'[w] = "save_stored")
             => DOMAIN cache_store' = DOMAIN cache_store \cup {req[w].key}
          /\ (pc[w] = "locked" /\ req[w] = [NoReq EXCEPT !.op = "clear"]
                /\ pc'[w] = "clear_stored")
             => /\ loc'[w].total_keys = Cardinality(DOMAIN cache_store)
                /\ cache_store' = EmptyDict
          /\ (pc[w] = "clear_stored" /\ pc'[w] = "idle")
             => /\ resp'.req = req[w]
                /\ resp'.status = 200
                /\ resp'.count = loc[w].total_keys
                /\ cache_store' = EmptyDict
                /\ cache_expiration' = EmptyDict
          /\ Finishes(w, "keys")
             => /\ resp'.status = 200
                /\ resp'.keys = DOMAIN cache_store
                /\ resp'.count = Cardinality(DOMAIN cache_store)
                /\ (cache_store = EmptyDict => resp'.keys = {} /\ resp'.count = 0)
      ]_vars

\* a ClearAll of a store of two keys has just answered keysCleared = 2
C9_Witness ==
    /\ resp.req = [NoReq EXCEPT !.op = "clear"]
    /\ resp.status = 200
    /\ resp.count = 2
    /\ cache_store = EmptyDict
    /\ cache_expiration = EmptyDict

\* the threads inside a "with cache_lock:" block
InCritical ==
    {w \in Workers : pc[w] \in {"locked", "save_stored", "clear_stored"}}
    \cup {s \in Sweepers : sw_pc[s] = "locked"}

\* C10: while a ClearAll has cleared the store and not yet the expiration
\* times, it holds the lock, no other thread is inside a critical section,
\* nothing but the ClearAll changes the store or the expiration times, and
\* no response that read the store is returned; the count it returns is the
\* number of keys stored at the step that cleared the store; and entries
\* are removed only by the thread that holds the lock, so that a Put that
\* takes the lock after the ClearAll has released it keeps its entry.
C10_ClearAllAtomic ==
    [][/\ \A w \in Workers :
             /\ pc'[w] = "clear_stored"
                => /\ cache_lock' = w
                   /\ InCritical' = {w}
             /\ (pc[w] = "clear_stored" /\ pc'[w] = "clear_stored")
                => /\ UNCHANGED <<cache_store, cache_expiration>>
                   /\ resp'.status \in {0, 400, 500}
             /\ (pc[w] = "locked" /\ pc'[w] = "clear_stored")
                => loc'[w].total_keys = Cardinality(DOMAIN cache_store)
             /\ (pc[w] = "clear_stored" /\ pc'[w] = "idle")
                => /\ resp'.count = loc[w].total_keys
                   /\ cache_store' = EmptyDict
                   /\ cache_expiration' = EmptyDict
       /\ \A k \in Keys :
             (\/ k \in DOMAIN cache_store /\ k \notin DOMAIN cache_store'
              \/ k \in DOMAIN cache_expiration /\ k \notin DOMAIN cache_expiration')
             => /\ cache_lock # NoThread
                /\ InCritical = {cache_lock}
                /\ \/ cache_lock \in Workers /\ pc'[cache_lock] # pc[cache_lock]
                   \/ cache_lock \in Sweepers /\ sw_pc'[cache_lock] # sw_pc[cache_lock]
      ]_vars

\* a ClearAll is between clearing the store and clearing the expiration
\* times while another request waits for the lock
C10_Witness ==
    \E w \in Workers : \E v \in Workers \ {w} :
       /\ pc[w] = "clear_stored"
       /\ loc[w].total_keys >= 1
       /\ cache_expiration # EmptyDict
       /\ pc[v] = "handler"

\* C11 (under PutsSpec: Puts of distinct keys sent concurrently, then
\* reads): while no TTL has elapsed (every Put is sent after time 0, so up
\* to time TTL), in every interleaving of the Puts, the reads and the
\* cleanup passes, every stored body is the one written to its key; once
\* the Puts are answered the store and the expiration times hold exactly
\* the M keys; every Get answers 200 with the body written to its key and
\* ListKeys answers the M keys and count M.
C11_ConcurrentPuts ==
    now <= TTL
    => /\ \A k \in DOMAIN cache_store : cache_store[k] = ScenarioBody(k)
       /\ PutsDone
          => /\ DOMAIN cache_store = Keys
             /\ DOMAIN cache_expiration = Keys
       /\ resp.req.op = "get"
          => /\ resp.status = 200
             /\ resp.cached = ScenarioBody(resp.req.key)
       /\ resp.req.op = "keys"
          => /\ resp.status = 200
             /\ resp.keys = Keys
             /\ resp.count = PutCount

\* ListKeys has just answered the M keys after the cleanup thread started by
\* __main__ has finished a pass
C11_Witness ==
    /\ resp.req.op = "keys"
    /\ resp.count = PutCount
    /\ sw_pc[MainSweeper] = "sleep"
    /\ sw_wake[MainSweeper] > SweepInterval

\* C12: a /save with a missing or empty key or with an empty body never
\* enters "with cache_lock:"; it is answered 400 in a step taken from the
\* handler's entry that leaves cache_store, cache_expiration and cache_lock
\* as they were.
C12_RejectedPut ==
    [][ /\ \A w \in Workers :
              req'[w].op = "save"
              => req'[w].key # NoKey /\ req'[w].body # EmptyBody
        /\ ( /\ resp'.req.op = "save"
             /\ resp'.req.key = NoKey \/ resp'.req.body = EmptyBody )
           => /\ resp'.status = 400
              /\ \E w \in Workers : pc[w] = "handler" /\ pc'[w] = "idle"
              /\ UNCHANGED <<cache_store, cache_expiration, cache_lock>> ]_vars

\* a /save with an empty body has just been refused while the cache holds an
\* entry and another thread is inside its critical section
C12_Witness ==
    /\ resp.req.op = "save"
    /\ resp.req.key # NoKey
    /\ resp.req.body = EmptyBody
    /\ resp.status = 400
    /\ cache_store # EmptyDict
    /\ cache_lock # NoThread

C14_InSync ==
    cache_lock = NoThread => DOMAIN cache_store = DOMAIN cache_expiration

\* a /clear of the whole cache has just left its critical section, in which
\* the two dictionaries differed, while a cleanup thread waits for the lock
C14_Witness ==
    /\ resp.req.op = "clear"
    /\ resp.req.key = NoKey
    /\ resp.count > 0
    /\ cache_lock = NoThread
    /\ \E s \in Sweepers : sw_pc[s] = "sampled"

\* C15: at most one thread is inside a "with cache_lock:" block, and it is
\* the holder of cache_lock; every step that changes cache_store or
\* cache_expiration is a step of the thread that holds the lock, and every
\* answer of /get and /keys read from the dictionaries is computed in one
\* step of the thread that holds the lock.
C15_MutualExclusion ==
    [][ /\ Cardinality(InCritical') <= 1
        /\ InCritical' = IF cache_lock' = NoThread THEN {} ELSE {cache_lock'}
        /\ (cache_store' # cache_store \/ cache_expiration' # cache_expiration)
           => /\ cache_lock \in InCritical
              /\ cache_lock \in Workers => pc'[cache_lock] # pc[cache_lock]
              /\ cache_lock \in Sweepers => sw_pc'[cache_lock] # sw_pc[cache_lock]
        /\ (resp'.req.op \in {"get", "keys"} /\ resp'.status \in {200, 404})
           => \E w \in Workers :
                 /\ cache_lock = w
                 /\ pc[w] = "locked"
                 /\ pc'[w] = "idle"
                 /\ cache_lock' = NoThread ]_vars

\* a /save is between its two writes while the other request thread and a
\* cleanup thread both wait for the lock
C15_Witness ==
    \E w \in Workers : \E v \in Workers \ {w} : \E s \in Sweepers :
        /\ pc[w] = "save_stored"
        /\ cache_lock = w
        /\ pc[v] = "handler"
        /\ sw_pc[s] = "sampled"

\* C16: no step of a /get or of a /keys request, whatever its answer,
\* changes an entry: every key keeps its presence, its body and its
\* expiration time, or was expired and is removed from both dictionaries;
\* no expiration time is changed.
C16_ReadOnly ==
    [][ (\E w \in Workers :
            /\ pc'[w] # pc[w]
            /\ \/ req'[w].op \in {"get", "keys"}
               \/ resp'.req.op \in {"get", "keys"})
        => /\ \A k \in Keys :
                 \/ /\ (k \in DOMAIN cache_store') = (k \in DOMAIN cache_store)
                    /\ (k \in DOMAIN cache_expiration') = (k \in DOMAIN cache_expiration)
                    /\ k \in DOMAIN cache_store => cache_store'[k] = cache_store[k]
                 \/ /\ k \in DOMAIN cache_expiration
                    /\ now >= cache_expiration[k]
                    /\ k \notin DOMAIN cache_store'
                    /\ k \notin DOMAIN cache_expiration'
           /\ \A k \in DOMAIN cache_expiration \cap DOMAIN cache_expiration' :
                 cache_expiration'[k] = cache_expiration[k] ]_vars

\* a /get has just answered 200 for an entry saved at an earlier time, whose
\* expiration time a renewal would have moved
C16_Witness ==
    /\ resp.req.op = "get"
    /\ resp.status = 200
    /\ resp.req.key \in DOMAIN cache_expiration
    /\ cache_expiration[resp.req.key] < ExpirationTime(now)

\* the number of keys of a dictionary
KeyCount(d) == Cardinality(DOMAIN d)

\* C17: the number of keys in cache_store changes by +1 in the write of a
\* /save whose key is absent and not at all in the write of a /save whose
\* key is present; by -1 in a /clear of a key that answers 200, which it
\* does exactly when the key is stored, and not at all in one that answers
\* 404; to 0 in a /clear of everything; by minus the number of stored keys
\* whose expiration time the sampled current_time has reached in a cleanup
\* pass (not at all when there is none); and in no other step, a refused
\* /save included.
C17_KeyCount ==
    [][ IF \E w \in Workers : pc[w] = "locked" /\ pc'[w] = "save_stored"
          THEN \E w \in Workers :
                  /\ pc[w] = "locked" /\ pc'[w] = "save_stored"
                  /\ KeyCount(cache_store') =
                        KeyCount(cache_store)
                        + (IF req[w].key \in DOMAIN cache_store THEN 0 ELSE 1)
        ELSE IF \E w \in Workers : pc[w] = "locked" /\ pc'[w] = "clear_stored"
          THEN KeyCount(cache_store') = 0
        ELSE IF \E w \in Workers :
                   pc[w] = "locked" /\ req[w].op = "clear" /\ pc'[w] = "idle"
          THEN \E w \in Workers :
                  /\ pc[w] = "locked" /\ req[w].op = "clear" /\ pc'[w] = "idle"
                  /\ (resp'.status = 200) = (req[w].key \in DOMAIN cache_store)
                  /\ resp'.status \in {200, 404}
                  /\ KeyCount(cache_store') =
                        KeyCount(cache_store)
                        - (IF resp'.status = 200 THEN 1 ELSE 0)
        ELSE IF \E s \in Sweepers : sw_pc[s] = "locked" /\ sw_pc'[s] = "sleep"
          THEN \E s \in Sweepers :
                  /\ sw_pc[s] = "locked" /\ sw_pc'[s] = "sleep"
                  /\ KeyCount(cache_store') =
                        KeyCount(cache_store)
                        - Cardinality({k \in DOMAIN cache_store :
                                          /\ k \in DOMAIN cache_expiration
                                          /\ sw_time[s] >= cache_expiration[k]})
        ELSE KeyCount(cache_store') = KeyCount(cache_store) ]_vars

\* a cleanup pass has just removed both keys at once
C17_Witness ==
    /\ resp.req.op = "cleanup"
    /\ resp.count = Cardinality(Keys)
    /\ KeyCount(cache_store) = 0

\* C18: a cleanup pass leaves in place, with its body and its expiration
\* time, every entry that is live when the pass runs and every entry whose
\* expiration time is later than the current_time the pass sampled; and a
\* /save that completes after a cleanup thread has sampled current_time and
\* before that thread's pass writes an expiration time later than the
\* sampled time.
C18_SweepKeepsLive ==
    [][ \A s \in Sweepers :
          /\ (sw_pc[s] = "locked" /\ sw_pc'[s] = "sleep")
             => \A k \in DOMAIN cache_store :
                   ( /\ k \in DOMAIN cache_expiration
                     /\ \/ now < cache_expiration[k]
                        \/ sw_time[s] < cache_expiration[k] )
                   => /\ k \in DOMAIN cache_store'
                      /\ k \in DOMAIN cache_expiration'
                      /\ cache_store'[k] = cache_store[k]
                      /\ cache_expiration'[k] = cache_expiration[k]
          /\ (sw_pc[s] = "sampled" /\ resp'.req.op = "save" /\ resp'.status = 200)
             => /\ sw_pc'[s] = "sampled"
                /\ sw_time'[s] < cache_expiration'[resp'.req.key] ]_vars

\* a cleanup pass has just removed an expired key and kept the entry a /save
\* wrote at the time of the pass
C18_Witness ==
    /\ resp.req.op = "cleanup"
    /\ resp.count >= 1
    /\ \E k \in DOMAIN cache_store :
          /\ k \in DOMAIN cache_expiration
          /\ cache_expiration[k] = ExpirationTime(now)

\* C19: no step of a /save of key k or of a /clear of key k changes another
\* key: every other key keeps its presence in cache_store and in
\* cache_expiration, its body and its expiration time.
C19_KeyIndependence ==
    [][ \A w \in Workers :
          ( /\ pc'[w] # pc[w]
            /\ \/ req[w].op = "save"
               \/ req[w].op = "clear" /\ req[w].key # NoKey )
          => \A k \in Keys \ {req[w].key} :
                /\ (k \in DOMAIN cache_store') = (k \in DOMAIN cache_store)
                /\ (k \in DOMAIN cache_expiration') = (k \in DOMAIN cache_expiration)
                /\ k \in DOMAIN cache_store => cache_store'[k] = cache_store[k]
                /\ k \in DOMAIN cache_expiration
                   => cache_expiration'[k] = cache_expiration[k] ]_vars

\* a /clear of one key has just answered 200 and the other key is still
\* stored
C19_Witness ==
    /\ resp.req.op = "clear"
    /\ resp.req.key # NoKey
    /\ resp.status = 200
    /\ \E k \in Keys \ {resp.req.key} :
          k \in DOMAIN cache_store /\ k \in DOMAIN cache_expiration

\* C20 (under FaultSpec): no thread holds cache_lock and _cleanup_job_lock
\* together; _cleanup_job_lock is held only inside the before_request hook
\* and cache_lock only by the one thread inside a "with cache_lock:" block,
\* so every step that leaves such a block, the 404 returns of /get and
\* /clear and a raising cleanup pass included, frees the lock; and with
\* every thread scheduled fairly no request stays unanswered for ever and
\* no cleanup pass stays in progress for ever.
C20_NoDeadlock ==
    /\ [](\A t \in Workers \cup Sweepers :
             ~(cache_lock = t /\ cleanup_job_lock = t))
    /\ [](\A w \in Workers : (cleanup_job_lock = w) = (pc[w] = "hook"))
    /\ [](cleanup_job_lock \in Workers \cup {NoThread})
    /\ [](InCritical = IF cache_lock = NoThread THEN {} ELSE {cache_lock})
    /\ [][ \A s \in Sweepers :
              (sw_pc[s] = "locked" /\ sw_pc'[s] # "locked")
              => cache_lock = s /\ cache_lock' = NoThread ]_vars
    /\ [][ resp'.status = 404 => cache_lock # NoThread /\ cache_lock' = NoThread ]_vars
    /\ \A w \in Workers : []<>(pc[w] = "idle")
    /\ \A s \in Sweepers : []<>(sw_pc[s] \in {"unstarted", "sleep"})

\* a /get has just returned 404 and freed the lock while the other request
\* thread and a cleanup thread wait for it
C20_Witness ==
    /\ resp.req.op = "get"
    /\ resp.status = 404
    /\ cache_lock = NoThread
    /\ \E w \in Workers : pc[w] = "handler"
    /\ \E s \in Sweepers : sw_pc[s] = "sampled"

====
